---------------------------- MODULE Spec2Model ----------------------------
(***************************************************************************)
(* Verification model of the OpenXcom script engine (src/Engine/Script.h): *)
(* the argument-kind algebra and ArgCompatible, overload selection, and    *)
(* the execution of scripts with global events by ScriptWorker.            *)
(***************************************************************************)
EXTENDS Integers, Sequences, FiniteSets, TLC

VARIABLES
    \* --- argument-kind algebra (ArgEnum / ArgCompatible) ---
    phase,          \* "base" -> "kind" -> "done": position of the compat check
    argType,        \* ArgEnum: type of the operation argument
    varType,        \* ArgEnum: type of the value passed to the operation
    overloadSize,   \* size_t overloadSize
    score,          \* result of ArgCompatible once phase = "done"
    \* --- overload selection ---
    procList,       \* overloads of one operation name, in declaration order
    callArgs,       \* kinds of the values of one call
    selected,       \* index of the selected overload, 0 when none
    compileResult,  \* "none" | "ok" | "NoMatchingOverload"
    hookCalls,      \* overload indexes whose parser hook was invoked
    \* --- events parser and worker ---
    loaded,         \* priority given to each event, in registration order
    eventsData,     \* ScriptParserEventsBase::_eventsData
    events,         \* ScriptParserEventsBase::_events, 0 = empty container
    frozen,         \* whether releseEvents has run
    attached,       \* ScriptContainerEventsBase::_events # nullptr
    pc,             \* position inside ScriptWorker::execute
    ptr,            \* the local `ptr` of execute: index into events, 0 = nullptr
    reg,            \* ScriptWorkerBase::reg: byte offset of an int cell -> value
    arg,            \* the caller's Output& arg (ScriptOutputArgs<int&, int>)
    inputs,         \* the values given to the ScriptWorker constructor
    log,            \* scripts run by executeBase, in order
    prevReg,        \* reg before the reset that precedes the latest script
    startReg,       \* reg the latest script started with
    \* --- plain container and its execution ---
    proc,           \* ScriptContainerBase::_proc of the plain container
    callArg,        \* the Output argument as the caller passed it to execute
    progPos,        \* ProgPos of executeBase: index of the next operation
    parser,         \* the state of the ScriptParserBase of the script kind
    current,        \* ScriptContainerEventsBase::_current
    source,         \* the script string given to the latest parseNode
    target,         \* the container the latest parseNode filled: "plain" | "events"
    \* --- tags and tag values ---
    tagNames,       \* ScriptGlobal::TagData::values of one tag kind: the names
    lastTag,        \* the Tag the latest addTag returned (its index)
    tagError,       \* the configuration error of the latest addTag
    values,         \* ScriptValuesBase::values of one ScriptValues
    lastSet,        \* tag index -> value of the latest set of that tag
    saved,          \* the node written by save: pairs of name and value
    restored,       \* ScriptValuesBase::values of the ScriptValues that loads
    tagPhase,       \* "init" -> "saved" -> "loaded"
    \* --- script kind of a worker ---
    outSizes,       \* sizeof of each type of ScriptOutputArgs<OutputArgs...>
    inSizes,        \* sizeof of each type of Args...
    outRefs,        \* TypeInfoImpl<T>::isOutput of each type of OutputArgs...
    \* --- register allocation of a parser and of one parse ---
    allocPhase,     \* "outputs" -> "inputs" -> "declared" -> "parse" -> "done"
    declCount,      \* registers declared so far by the running addRegImpl
    regUsed,        \* ScriptParserBase::_regUsed (Uint8)
    regIndexUsed,   \* the register counter of the writer of the running parse
    blocks,         \* open blocks: the counter and the bytes at each block start
    regBytes,       \* total size of the registers declared and not reclaimed
    lastReg,        \* <<offset, size>> given by the latest declaration, or <<>>
    allocError,     \* "none" | "RegisterFileOverflow"
    \* --- type ids ---
    typeCurr,       \* the static `curr` of registeTypeImplNextValue
    typeIds,        \* the static `curr` of each registeTypeImpl<T>, by first call
    lastType,       \* the host type of the latest registeTypeImpl<T>() call
    lastId          \* what that call returned

compatVars == <<phase, argType, varType, overloadSize, score>>
overloadVars == <<procList, callArgs, selected, compileResult, hookCalls>>
eventVars == <<loaded, eventsData, events, frozen, attached, pc, ptr, reg, arg,
               inputs, log, prevReg, startReg>>
parseVars == <<parser, current, source, target>>
containerVars == <<proc, callArg, progPos, parseVars>>
tagVars == <<tagNames, lastTag, tagError, values, lastSet, saved, restored, tagPhase>>
layoutVars == <<outSizes, inSizes, outRefs>>
allocVars == <<allocPhase, declCount, regUsed, regIndexUsed, blocks, regBytes, lastReg,
               allocError>>
typeVars == <<typeCurr, typeIds, lastType, lastId>>
vars == <<compatVars, overloadVars, eventVars, containerVars, tagVars, layoutVars,
          allocVars, typeVars>>

-----------------------------------------------------------------------------
(* Bounds of the model *)

\* number of host types registered through registeTypeImpl
NumHostTypes == 2
\* largest overloadSize tried (the code saturates at 8)
MaxOverloadSize == 9
\* number of overloads of one operation declared on top of the initial ones
MaxOverloads == 2
\* number of events loaded into one events parser
MaxEvents == 3

-----------------------------------------------------------------------------
(* Uint8 bit operations used by the enum operators *)

RECURSIVE BitAndN(_, _, _)
BitAndN(a, b, n) ==
    IF n = 0 THEN 0
    ELSE (IF a % 2 = 1 /\ b % 2 = 1 THEN 1 ELSE 0)
         + 2 * BitAndN(a \div 2, b \div 2, n - 1)

RECURSIVE BitOrN(_, _, _)
BitOrN(a, b, n) ==
    IF n = 0 THEN 0
    ELSE (IF a % 2 = 1 \/ b % 2 = 1 THEN 1 ELSE 0)
         + 2 * BitOrN(a \div 2, b \div 2, n - 1)

\* operator& on Uint8
BitAnd(a, b) == BitAndN(a, b, 8)
\* operator| on Uint8
BitOr(a, b) == BitOrN(a, b, 8)
\* ~x on Uint8
BitNot(a) == 255 - a

-----------------------------------------------------------------------------
(* enum ArgSpecEnum : Uint8 *)

ArgSpecNone == 0
ArgSpecReg == 1
ArgSpecVar == 3
ArgSpecPtr == 4
ArgSpecPtrE == 12
ArgSpecSize == 16

(* enum ArgEnum : Uint8 *)

ArgInvalid == ArgSpecSize * 0
ArgNull == ArgSpecSize * 1
ArgInt == ArgSpecSize * 2
ArgLabel == ArgSpecSize * 3
ArgMax == ArgSpecSize * 4

\* Next available value for arg type (Uint8 arithmetic).
ArgNext(a) == (a + ArgSpecSize) % 256

\* Base version of argument type.
ArgBase(a) == BitAnd(a, BitNot(ArgSpecSize - 1))

\* Specialized version of argument type.
ArgSpecAdd(a, spec) == IF ArgBase(a) # ArgInvalid THEN BitOr(a, spec) ELSE a

\* Remove specialization from argument type.
ArgSpecRemove(a, spec) ==
    IF ArgBase(a) # ArgInvalid THEN BitAnd(a, BitNot(spec)) ELSE a

ArgIsReg(a) == BitAnd(a, ArgSpecReg) = ArgSpecReg
ArgIsVar(a) == BitAnd(a, ArgSpecVar) = ArgSpecVar
ArgIsPtr(a) == BitAnd(a, ArgSpecPtr) = ArgSpecPtr
ArgIsPtrE(a) == BitAnd(a, ArgSpecPtrE) = ArgSpecPtrE

\* the overloadSize from which the penalty no longer grows
OverloadSizeCap == 8

\* (overloadSize > 8 ? 8 : overloadSize)
OverloadPenalty(n) == IF n > OverloadSizeCap THEN OverloadSizeCap ELSE n

\* ArgCompatible without the rule of line 199 (var needs the identical kind).
ArgCompatible_NoVarRule(a, v, n) ==
    IF a = ArgInvalid THEN 0
    ELSE IF ArgBase(a) # ArgBase(v) THEN 0
    ELSE IF ArgIsReg(a) # ArgIsReg(v) THEN 0
    ELSE IF ArgIsPtr(a) # ArgIsPtr(v) THEN 0
    ELSE IF ArgIsPtrE(a) /\ ArgIsPtr(v) THEN 0
    ELSE 255 - (IF ArgIsPtrE(a) # ArgIsPtrE(v) THEN 128 ELSE 0)
             - (IF ArgIsVar(a) # ArgIsVar(v) THEN 64 ELSE 0)
             - OverloadPenalty(n)

\* ArgCompatible without the rule of line 200 (base types must agree).
ArgCompatible_NoBaseRule(a, v, n) ==
    IF a = ArgInvalid THEN 0
    ELSE IF ArgIsVar(a) /\ a # v THEN 0
    ELSE IF ArgIsReg(a) # ArgIsReg(v) THEN 0
    ELSE IF ArgIsPtr(a) # ArgIsPtr(v) THEN 0
    ELSE IF ArgIsPtrE(a) /\ ArgIsPtr(v) THEN 0
    ELSE 255 - (IF ArgIsPtrE(a) # ArgIsPtrE(v) THEN 128 ELSE 0)
             - (IF ArgIsVar(a) # ArgIsVar(v) THEN 64 ELSE 0)
             - OverloadPenalty(n)

\* ArgCompatible without the rule of line 203 (editable pointer argument).
ArgCompatible_NoPtrERule(a, v, n) ==
    IF a = ArgInvalid THEN 0
    ELSE IF ArgIsVar(a) /\ a # v THEN 0
    ELSE IF ArgBase(a) # ArgBase(v) THEN 0
    ELSE IF ArgIsReg(a) # ArgIsReg(v) THEN 0
    ELSE IF ArgIsPtr(a) # ArgIsPtr(v) THEN 0
    ELSE 255 - (IF ArgIsPtrE(a) # ArgIsPtrE(v) THEN 128 ELSE 0)
             - (IF ArgIsVar(a) # ArgIsVar(v) THEN 64 ELSE 0)
             - OverloadPenalty(n)

\* ArgCompatible with the two penalties exchanged.
ArgCompatible_SwappedPenalty(a, v, n) ==
    IF a = ArgInvalid THEN 0
    ELSE IF ArgIsVar(a) /\ a # v THEN 0
    ELSE IF ArgBase(a) # ArgBase(v) THEN 0
    ELSE IF ArgIsReg(a) # ArgIsReg(v) THEN 0
    ELSE IF ArgIsPtr(a) # ArgIsPtr(v) THEN 0
    ELSE IF ArgIsPtrE(a) /\ ArgIsPtr(v) THEN 0
    ELSE 255 - (IF ArgIsPtrE(a) # ArgIsPtrE(v) THEN 64 ELSE 0)
             - (IF ArgIsVar(a) # ArgIsVar(v) THEN 128 ELSE 0)
             - OverloadPenalty(n)

\* Compatibility between operation argument type and variable type.
ArgCompatible(a, v, n) ==
    IF a = ArgInvalid THEN 0
    ELSE IF ArgIsVar(a) /\ a # v THEN 0
    ELSE IF ArgBase(a) # ArgBase(v) THEN 0
    ELSE IF ArgIsReg(a) # ArgIsReg(v) THEN 0
    ELSE IF ArgIsPtr(a) # ArgIsPtr(v) THEN 0
    ELSE IF ArgIsPtrE(a) /\ ArgIsPtr(v) THEN 0
    ELSE 255 - (IF ArgIsPtrE(a) # ArgIsPtrE(v) THEN 128 ELSE 0)
             - (IF ArgIsVar(a) # ArgIsVar(v) THEN 64 ELSE 0)
             - OverloadPenalty(n)

-----------------------------------------------------------------------------
(* Type ids: registeTypeImplNextValue hands out ArgMax, ArgNext(ArgMax), ... *)

RECURSIVE registeTypeImplNextValue(_)
registeTypeImplNextValue(k) ==
    IF k = 0 THEN ArgMax ELSE ArgNext(registeTypeImplNextValue(k - 1))

\* registeTypeImpl<T>() for int, nullptr_t, ProgPos and the host types
BuiltinTypes == {ArgNull, ArgInt, ArgLabel}
HostTypes == {registeTypeImplNextValue(k) : k \in 0 .. NumHostTypes - 1}
ValidBaseTypes == BuiltinTypes \cup HostTypes
BaseTypes == {ArgInvalid} \cup ValidBaseTypes

\* register-ness and pointer-ness specializations and their operator| unions
RegSpecs == {ArgSpecNone, ArgSpecReg, ArgSpecVar}
PtrSpecs == {ArgSpecNone, ArgSpecPtr, ArgSpecPtrE}
SpecCombos == {BitOr(r, p) : r \in RegSpecs, p \in PtrSpecs}

\* every kind getArgType / addScriptReg can produce
Kinds == {ArgSpecAdd(t, s) : t \in BaseTypes, s \in SpecCombos}


-----------------------------------------------------------------------------
(* States of the parts of the engine that a specification leaves untouched *)

\* sizeof(int), the size of every register of the modelled script kind
IntSize == 4

\* Output = ScriptOutputArgs<int&, int> (as ScriptWorkerBlit::Output), Args = int
OutputSizes == <<IntSize, IntSize>>
InputSizes == <<IntSize>>

\* helper::TypeInfoImpl<T>::isOutput: a reference that is not const
OutputIsOutput == <<TRUE, FALSE>>

\* values of an int register that the model distinguishes
Vals == {0, 1}

RECURSIVE offset_Aligned(_, _)
\* offset that rounds every size up to the alignment of int, as the layout
\* of a struct would
offset_Aligned(sizes, i) ==
    (IF i > 0 THEN ((Head(sizes) + 3) \div 4) * 4 ELSE 0)
    + (IF i > 1 THEN offset_Aligned(Tail(sizes), i - 1) ELSE 0)

RECURSIVE offset(_, _)
\* Count offset: the sizes of the first i types.
offset(sizes, i) ==
    (IF i > 0 THEN Head(sizes) ELSE 0)
    + (IF i > 1 THEN offset(Tail(sizes), i - 1) ELSE 0)

\* offsetOutput: offset<Args...>(sizeof...(Args)) of the output tuple
offsetOutput(sizes) == offset(sizes, Len(sizes))

\* the parser of the script kind after its constructor: the declared
\* registers take the first bytes of the register file, no default script
ParserInit ==
    [regUsed |-> offsetOutput(OutputSizes) + offsetOutput(InputSizes),
     refList |-> <<"out", "shade", "in">>,
     typeList |-> <<"int">>,
     procList |-> <<"set", "mov">>,
     strings |-> <<>>,
     defaultScript |-> <<>>]

OverloadIdle ==
    /\ procList = <<>>
    /\ callArgs = <<>>
    /\ selected = 0
    /\ compileResult = "none"
    /\ hookCalls = <<>>

EventsIdle ==
    /\ loaded = <<>>
    /\ eventsData = <<>>
    /\ events = <<>>
    /\ frozen = FALSE
    /\ attached = FALSE
    /\ pc = "idle"
    /\ ptr = 0
    /\ reg = <<>>
    /\ arg = <<>>
    /\ inputs = <<>>
    /\ log = <<>>
    /\ prevReg = <<>>
    /\ startReg = <<>>

ContainerIdle ==
    /\ proc = <<>>
    /\ callArg = <<>>
    /\ progPos = 0
    /\ parser = ParserInit
    /\ current = <<>>
    /\ source = <<>>
    /\ target = "none"

TagsIdle ==
    /\ tagNames = <<>>
    /\ lastTag = 0
    /\ tagError = "none"
    /\ values = <<>>
    /\ lastSet = <<>>
    /\ saved = <<>>
    /\ restored = <<>>
    /\ tagPhase = "init"

\* no worker of a generic script kind
LayoutIdle ==
    /\ outSizes = <<>>
    /\ inSizes = <<>>
    /\ outRefs = <<>>

\* no parser declares registers, no parse is running
AllocIdle ==
    /\ allocPhase = "idle"
    /\ declCount = 0
    /\ regUsed = 0
    /\ regIndexUsed = 0
    /\ blocks = <<>>
    /\ regBytes = 0
    /\ lastReg = <<>>
    /\ allocError = "none"

\* no call of registeTypeImpl yet
NoType == <<"none", 0>>

\* no host type has asked for its id
TypesIdle ==
    /\ typeCurr = ArgMax
    /\ typeIds = <<>>
    /\ lastType = NoType
    /\ lastId = ArgInvalid

CompatIdle ==
    /\ phase = "base"
    /\ argType = ArgInvalid
    /\ varType = ArgInvalid
    /\ overloadSize = 0
    /\ score = 0

-----------------------------------------------------------------------------
(* SpecCompat: ArgCompatible applied to every pair of kinds *)

InitCompat ==
    /\ phase = "base"
    /\ argType \in BaseTypes
    /\ varType \in BaseTypes
    /\ overloadSize \in 0 .. MaxOverloadSize
    /\ score = 0
    /\ OverloadIdle
    /\ EventsIdle
    /\ ContainerIdle
    /\ TagsIdle
    /\ LayoutIdle
    /\ AllocIdle
    /\ TypesIdle

\* getArgType: ArgSpecAdd(registeTypeImpl<t3>(), spec), on both sides
Decorate ==
    /\ phase = "base"
    /\ \E sa \in SpecCombos, sv \in SpecCombos :
          /\ argType' = ArgSpecAdd(argType, sa)
          /\ varType' = ArgSpecAdd(varType, sv)
    /\ phase' = "kind"
    /\ UNCHANGED <<overloadSize, score, overloadVars, eventVars, containerVars, tagVars, layoutVars, allocVars, typeVars>>

\* the call ArgCompatible(argType, varType, overloadSize)
Compat ==
    /\ phase = "kind"
    /\ score' = ArgCompatible(argType, varType, overloadSize)
    /\ phase' = "done"
    /\ UNCHANGED <<argType, varType, overloadSize, overloadVars, eventVars, containerVars, tagVars, layoutVars, allocVars, typeVars>>

NextCompat == Decorate \/ Compat

SpecCompat == InitCompat /\ [][NextCompat]_vars

-----------------------------------------------------------------------------
(* Claims about ArgCompatible *)

\* C1: a valid kind (valid base type, any flag combination) is fully
\* compatible with itself: ArgCompatible(K, K, 0) = 255.
C1_SelfCompatible ==
    (phase = "done" /\ argType = varType /\ ArgBase(argType) # ArgInvalid
       /\ overloadSize = 0)
    => score = 255

\* C2: kinds whose base types differ are incompatible, whatever the flags
\* on either side and whatever the overload size.
C2_DifferentBaseIsZero ==
    (phase = "done" /\ ArgBase(argType) # ArgBase(varType)) => score = 0

\* C2 witness: base types differ although nothing else would reject the pair.
C2_Witness ==
    /\ phase = "done"
    /\ ArgBase(argType) \in HostTypes
    /\ ArgBase(varType) \in HostTypes
    /\ ArgBase(argType) # ArgBase(varType)
    /\ argType - ArgBase(argType) = varType - ArgBase(varType)
    /\ ArgIsReg(argType) /\ ~ArgIsVar(argType)
    /\ ArgIsPtr(argType) /\ ~ArgIsPtrE(argType)
    /\ overloadSize = MaxOverloadSize
    /\ score = 0

\* the zero rules as the claim C3 lists them
C3_NoZeroRule(a, v) ==
    /\ ArgBase(a) # ArgInvalid
    /\ ArgBase(a) = ArgBase(v)
    /\ ArgIsReg(a) = ArgIsReg(v)
    /\ ArgIsPtr(a) = ArgIsPtr(v)
    /\ (ArgIsVar(a) => a = v)
    /\ ~(ArgIsPtrE(a) /\ ArgIsPtr(v) /\ ~ArgIsPtrE(v))

C3_Formula(a, v, n) ==
    255 - (IF ArgIsPtrE(a) # ArgIsPtrE(v) THEN 128 ELSE 0)
        - (IF ArgIsVar(a) # ArgIsVar(v) THEN 64 ELSE 0)
        - (IF n < 8 THEN n ELSE 8)

\* C3: when no zero rule applies the score is
\* 255 - 128*[ptr_editable differs] - 64*[var differs] - min(n, 8), at least 55.
C3_ScoreWhenNoZeroRule ==
    (phase = "done" /\ C3_NoZeroRule(argType, varType))
    => (score = C3_Formula(argType, varType, overloadSize) /\ score >= 55)

\* classes of matches named by C4
C4_Exact(a, v) == ArgBase(a) # ArgInvalid /\ a = v
C4_PtrRelaxation(a, v) ==
    /\ ArgBase(a) # ArgInvalid
    /\ ArgIsPtr(a) /\ ~ArgIsPtrE(a)
    /\ v = BitOr(a, ArgSpecPtrE)
C4_VarDowngrade(a, v) ==
    /\ ArgBase(a) # ArgInvalid
    /\ ArgIsReg(a) /\ ~ArgIsVar(a)
    /\ v = BitOr(a, ArgSpecVar)

\* the kinds over the base type of a
C4_KindsLike(a) == {ArgSpecAdd(ArgBase(a), s) : s \in SpecCombos}

\* C4 as claimed: exact match > pointer-mutability relaxation >
\* writable-to-readonly downgrade, for any overload sizes.
C4_OrderAsClaimed ==
    phase = "done" =>
      \A a2 \in C4_KindsLike(argType), v2 \in C4_KindsLike(argType),
         n2 \in 0 .. MaxOverloadSize :
        /\ (C4_Exact(argType, varType) /\ C4_PtrRelaxation(a2, v2))
              => score > ArgCompatible(a2, v2, n2)
        /\ (C4_PtrRelaxation(argType, varType) /\ C4_VarDowngrade(a2, v2))
              => score > ArgCompatible(a2, v2, n2)

\* rank of the relaxation a non-zero score went through, as the code orders them
C4_Rank(a, v) ==
    LET pm == ArgIsPtrE(a) # ArgIsPtrE(v)
        vm == ArgIsVar(a) # ArgIsVar(v)
    IN IF ~pm /\ ~vm THEN 3 ELSE IF ~pm THEN 2 ELSE IF ~vm THEN 1 ELSE 0

\* C4 amended: among the pairs the code accepts (score > 0) a match without
\* relaxation scores strictly higher than a writable-to-readonly downgrade,
\* which scores strictly higher than a pointer-mutability relaxation (and that
\* one higher than a match needing both), for any overload sizes; the
\* overload size orders candidates only inside one class.
C4_OrderInCode ==
    (phase = "done" /\ score > 0) =>
      /\ (C4_Rank(argType, varType) = 3 => argType = varType)
      /\ (C4_VarDowngrade(argType, varType) => C4_Rank(argType, varType) = 2)
      /\ (C4_PtrRelaxation(argType, varType) => C4_Rank(argType, varType) = 1)
      /\ \A a2 \in C4_KindsLike(argType), v2 \in C4_KindsLike(argType),
            n2 \in 0 .. MaxOverloadSize :
           LET s2 == ArgCompatible(a2, v2, n2)
           IN (s2 > 0 /\ C4_Rank(a2, v2) < C4_Rank(argType, varType))
                 => s2 < score

\* C4 witness: a var downgrade at the largest overload size, scored above
\* the best pointer relaxation (191 - 8 > 127).
C4_Witness ==
    /\ phase = "done"
    /\ C4_VarDowngrade(argType, varType)
    /\ overloadSize = MaxOverloadSize
    /\ score = 183
    /\ \E a2 \in C4_KindsLike(argType) :
          /\ C4_PtrRelaxation(a2, BitOr(a2, ArgSpecPtrE))
          /\ ArgCompatible(a2, BitOr(a2, ArgSpecPtrE), 0) = 127

\* C5: a var argument accepts only the identical kind.
C5_VarNeedsIdenticalKind ==
    (phase = "done" /\ ArgIsVar(argType) /\ argType # varType) => score = 0

\* C5 witness: a read-only register of the same type offered to a var argument.
C5_Witness ==
    /\ phase = "done"
    /\ ArgIsVar(argType)
    /\ ~ArgIsPtr(argType)
    /\ varType = ArgSpecAdd(ArgSpecRemove(argType, ArgSpecVar), ArgSpecReg)
    /\ ArgBase(argType) = ArgInt
    /\ score = 0

\* C6: an editable-pointer argument never accepts a non-editable pointer of
\* the same base type.
C6_ReadOnlyPtrNotEditable ==
    (phase = "done" /\ ArgIsPtrE(argType) /\ ArgIsPtr(varType)
       /\ ~ArgIsPtrE(varType) /\ ArgBase(argType) = ArgBase(varType))
    => score = 0

\* C6 witness: ptr const T offered where ptr T is declared, nothing else differs.
C6_Witness ==
    /\ phase = "done"
    /\ ArgBase(argType) \in HostTypes
    /\ argType = ArgSpecAdd(ArgBase(argType), ArgSpecPtrE)
    /\ varType = ArgSpecAdd(ArgBase(argType), ArgSpecPtr)
    /\ score = 0

-----------------------------------------------------------------------------
(* SpecOverload: selection of an overload of one operation name.           *)
(* The selection loop lives in Script.cpp; it is modelled from section 4.1 *)
(* of the specification on top of ArgCompatible.                           *)

\* kinds used in signatures and calls: int register, int var, ptr const T, ptr T
SigKinds ==
    LET T == registeTypeImplNextValue(0)
    IN {ArgSpecAdd(ArgInt, ArgSpecReg), ArgSpecAdd(ArgInt, ArgSpecVar),
        ArgSpecAdd(T, ArgSpecPtr), ArgSpecAdd(T, ArgSpecPtrE)}

\* kinds tried in the second position: int register, int var, ptr const T
SecondKinds == {k \in SigKinds : ~ArgIsPtrE(k)}

\* signatures of one or two positional arguments
Signatures ==
    {<<a>> : a \in SigKinds} \cup {<<a, b>> : a \in SigKinds, b \in SecondKinds}

\* operation overloads without arguments declared before the others
NullaryOverloads == [i \in 1 .. OverloadSizeCap |-> <<>>]

RECURSIVE SumScore(_, _, _, _)
\* summed compat score of positions k.. of signature sig, 0 when one is incompatible
SumScore(sig, args, ordinal, k) ==
    IF k > Len(sig) THEN 0
    ELSE LET c == ArgCompatible(sig[k], args[k], ordinal)
             rest == SumScore(sig, args, ordinal, k + 1)
         IN IF c = 0 \/ (k < Len(sig) /\ rest = 0) THEN 0 ELSE c + rest

\* score of overload i (declaration ordinal i - 1) for a call, 0 = not accepted
OverloadScore(procs, args, i) ==
    IF Len(procs[i]) # Len(args) \/ Len(args) = 0 THEN 0
    ELSE SumScore(procs[i], args, i - 1, 1)

RECURSIVE SelectOverload_LastWins(_, _, _, _, _)
\* the selection loop keeping the later overload on equal scores
SelectOverload_LastWins(procs, args, i, best, bestScore) ==
    IF i > Len(procs) THEN best
    ELSE LET sc == OverloadScore(procs, args, i)
         IN IF sc > 0 /\ sc >= bestScore
            THEN SelectOverload_LastWins(procs, args, i + 1, i, sc)
            ELSE SelectOverload_LastWins(procs, args, i + 1, best, bestScore)

RECURSIVE SelectOverload(_, _, _, _, _)
\* walk the overloads in declaration order keeping the best accepted one
SelectOverload(procs, args, i, best, bestScore) ==
    IF i > Len(procs) THEN best
    ELSE LET sc == OverloadScore(procs, args, i)
         IN IF sc > bestScore
            THEN SelectOverload(procs, args, i + 1, i, sc)
            ELSE SelectOverload(procs, args, i + 1, best, bestScore)

InitOverload ==
    /\ procList \in {<<>>, NullaryOverloads}
    /\ callArgs = <<>>
    /\ selected = 0
    /\ compileResult = "none"
    /\ hookCalls = <<>>
    /\ CompatIdle
    /\ EventsIdle
    /\ ContainerIdle
    /\ TagsIdle
    /\ LayoutIdle
    /\ AllocIdle
    /\ TypesIdle

\* addParserBase: one more overload of the operation, in declaration order
AddOverload ==
    /\ compileResult = "none"
    /\ callArgs = <<>>
    /\ Len(SelectSeq(procList, LAMBDA sg : sg # <<>>)) < MaxOverloads
    /\ \E sg \in Signatures : procList' = Append(procList, sg)
    /\ UNCHANGED <<callArgs, selected, compileResult, hookCalls,
                   compatVars, eventVars, containerVars, tagVars, layoutVars, allocVars, typeVars>>

\* a statement of the script calls the operation with these values
CallOperation ==
    /\ compileResult = "none"
    /\ callArgs = <<>>
    /\ \E a \in Signatures : callArgs' = a
    /\ UNCHANGED <<procList, selected, compileResult, hookCalls,
                   compatVars, eventVars, containerVars, tagVars, layoutVars, allocVars, typeVars>>

\* overload dispatch during compile: select, then invoke the winner's hook
Resolve ==
    /\ compileResult = "none"
    /\ callArgs # <<>>
    /\ LET w == SelectOverload(procList, callArgs, 1, 0, 0)
       IN /\ selected' = w
          /\ compileResult' = IF w = 0 THEN "NoMatchingOverload" ELSE "ok"
          /\ hookCalls' = IF w = 0 THEN <<>> ELSE <<w>>
    /\ UNCHANGED <<procList, callArgs, compatVars, eventVars, containerVars, tagVars, layoutVars, allocVars, typeVars>>

NextOverload == AddOverload \/ CallOperation \/ Resolve

SpecOverload == InitOverload /\ [][NextOverload]_vars

\* an overload is accepted: same arity and every positional compat > 0
C7_Accepted(i) ==
    /\ Len(procList[i]) = Len(callArgs)
    /\ \A k \in 1 .. Len(callArgs) :
          ArgCompatible(procList[i][k], callArgs[k], i - 1) > 0

RECURSIVE C7_Sum(_, _)
C7_Sum(i, k) ==
    IF k = 0 THEN 0
    ELSE ArgCompatible(procList[i][k], callArgs[k], i - 1) + C7_Sum(i, k - 1)

\* C7: the selected overload is the accepted one with the highest summed
\* score, the earliest declared on a tie; when none is accepted the compile
\* fails with NoMatchingOverload and no parser hook is invoked.
C7_OverloadSelection ==
    compileResult # "none" =>
      LET Acc == {i \in 1 .. Len(procList) : C7_Accepted(i)}
      IN /\ (Acc = {}) <=> (compileResult = "NoMatchingOverload")
         /\ Acc = {} => (selected = 0 /\ hookCalls = <<>>)
         /\ Acc # {} =>
              /\ selected \in Acc
              /\ hookCalls = <<selected>>
              /\ \A j \in Acc :
                    LET sj == C7_Sum(j, Len(callArgs))
                        ss == C7_Sum(selected, Len(callArgs))
                    IN sj < ss \/ (sj = ss /\ selected <= j)

\* C7 witness: two accepted overloads with equal sums, the earlier one selected.
C7_Witness ==
    /\ compileResult = "ok"
    /\ \E j \in 1 .. Len(procList) :
          /\ j > selected
          /\ C7_Accepted(j)
          /\ C7_Sum(j, Len(callArgs)) = C7_Sum(selected, Len(callArgs))
    /\ hookCalls = <<selected>>

\* C7 witness of the failure: overloads exist, none accepts, no hook ran.
C7_WitnessNoMatch ==
    /\ compileResult = "NoMatchingOverload"
    /\ \E i \in 1 .. Len(procList) : Len(procList[i]) = Len(callArgs)
    /\ hookCalls = <<>>

-----------------------------------------------------------------------------
(* ScriptWorkerBase: the register file and the typed copies in and out of it *)

\* byte offsets of the registers the script kind declares
OutputCells == {offset(OutputSizes, i - 1) : i \in 1 .. Len(OutputSizes)}
InputCells ==
    {offsetOutput(OutputSizes) + offset(InputSizes, i - 1) : i \in 1 .. Len(InputSizes)}
\* `var` locals of a script are allocated behind the inputs
LocalSizes == <<IntSize>>
LocalCells ==
    {offsetOutput(OutputSizes) + offsetOutput(InputSizes) + offset(LocalSizes, i - 1) :
        i \in 1 .. Len(LocalSizes)}
RegCells == OutputCells \cup InputCells \cup LocalCells

\* template<typename> using SetAllRegs = PosTag<RegSet>
SetAllRegs(sizes) == [i \in 1 .. Len(sizes) |-> TRUE]
\* GetWritableRegs<T> = PosTag<isOutput ? RegGet : RegNone>
GetWritableRegs == OutputIsOutput
\* SetReadonlyRegs<T> = PosTag<!isOutput ? RegSet : RegNone>
SetReadonlyRegs == [i \in 1 .. Len(OutputIsOutput) |-> ~OutputIsOutput[i]]

\* forReg with RegSet positions: ref<T>(BaseOffset + offset(I)) = get<I>(data)
forRegSet(r, base, sizes, filter, data) ==
    [c \in DOMAIN r |->
        IF \E i \in 1 .. Len(sizes) : filter[i] /\ c = base + offset(sizes, i - 1)
        THEN data[CHOOSE i \in 1 .. Len(sizes) :
                     filter[i] /\ c = base + offset(sizes, i - 1)]
        ELSE r[c]]

\* forReg with RegGet positions: get<I>(data) = ref<T>(BaseOffset + offset(I))
forRegGet(r, base, sizes, filter, data) ==
    [i \in 1 .. Len(sizes) |->
        IF filter[i] THEN r[base + offset(sizes, i - 1)] ELSE data[i]]

\* updateBase: memset(&reg, 0, ScriptMaxReg), then the inputs behind the outputs
updateBase(args) ==
    forRegSet([c \in RegCells |-> 0], offsetOutput(OutputSizes), InputSizes,
              SetAllRegs(InputSizes), args)

\* set with the filter of get: only the writable slots are copied in
set_WritableRegs(r, a) == forRegSet(r, 0, OutputSizes, GetWritableRegs, a)

\* set(arg): every slot of the output tuple into the registers from offset 0
set(r, a) == forRegSet(r, 0, OutputSizes, SetAllRegs(OutputSizes), a)

\* get with the filter dropped: every slot is copied back
get_AllRegs(r, a) == forRegGet(r, 0, OutputSizes, SetAllRegs(OutputSizes), a)

\* get(arg): the writable slots of the output tuple back from the registers
get(r, a) == forRegGet(r, 0, OutputSizes, GetWritableRegs, a)

\* reset with the filter inverted: rewrites the writable slots
reset_WritableRegs(r, a) == forRegSet(r, 0, OutputSizes, OutputIsOutput, a)

\* reset(arg): the read-only slots of the output tuple into their registers
reset(r, a) == forRegSet(r, 0, OutputSizes, SetReadonlyRegs, a)

\* executeBase: handlers get ScriptWorkerBase& and may write any register
\* through ref<T>(offset); the register file after a script is any file over V
ScriptWrites(V) == [RegCells -> V]

-----------------------------------------------------------------------------
(* ScriptParserEventsBase: loading and releasing events.                   *)
(* load / releseEvents / getEvents are in Script.cpp; they are modelled    *)
(* from section 4.5 of the specification.                                  *)

EventsMax == 64
OffsetScale == 100
OffsetMax == 100 * OffsetScale

\* the stored offset without the scaling: priority and ordinal share the value
EventKey_Unscaled(p, ordinal) == p + ordinal

\* the stored offset: the priority scaled, the rest tells the insertion order
EventKey(p, ordinal) == p * OffsetScale + ordinal

RECURSIVE InsertByOffset(_, _)
\* insert e behind every element whose offset is not greater
InsertByOffset(e, seq) ==
    IF seq = <<>> THEN <<e>>
    ELSE IF e.offset < Head(seq).offset THEN <<e>> \o seq
    ELSE <<Head(seq)>> \o InsertByOffset(e, Tail(seq))

RECURSIVE SortByOffset(_, _)
\* sort of _eventsData by offset
SortByOffset(seq, acc) ==
    IF seq = <<>> THEN acc
    ELSE SortByOffset(Tail(seq), InsertByOffset(Head(seq), acc))

\* scripts of a run of the sorted events, as indexes of the loaded events
ScriptsOf(seq) == [i \in 1 .. Len(seq) |-> seq[i].script]

\* the released array: before-run, empty container, after-run, empty container
EventChain(data) ==
    LET sorted == SortByOffset(data, <<>>)
    IN ScriptsOf(SelectSeq(sorted, LAMBDA e : e.offset < 0)) \o <<0>>
       \o ScriptsOf(SelectSeq(sorted, LAMBDA e : e.offset >= 0)) \o <<0>>

\* priorities tried by the two specifications
EventPriorities == {0 - OffsetMax, 0 - 2, 0 - 1, 0, 1, OffsetMax}
WorkerPriorities == {0 - 1, 1}

\* the main script and the event scripts, as entries of the log
MainScript == <<"main", 0>>
EventScript(i) == <<"event", i>>

\* state after construction of the parser and of a ScriptWorker(inputs)
InitWorker(V) ==
    /\ loaded = <<>>
    /\ eventsData = <<>>
    /\ events = <<>>
    /\ frozen = FALSE
    /\ attached = FALSE
    /\ pc = "idle"
    /\ ptr = 0
    /\ inputs \in [1 .. Len(InputSizes) -> V]
    /\ arg \in [1 .. Len(OutputSizes) -> V]
    /\ reg = updateBase(inputs)
    /\ log = <<>>
    /\ prevReg = reg
    /\ startReg = reg
    /\ CompatIdle
    /\ OverloadIdle
    /\ ContainerIdle
    /\ TagsIdle
    /\ LayoutIdle
    /\ AllocIdle
    /\ TypesIdle

\* load: one more event with priority p, rejected when p is 0 or out of range
LoadEvent(P) ==
    /\ ~frozen
    /\ Len(eventsData) < MaxEvents
    /\ Len(eventsData) < EventsMax
    /\ \E p \in P :
          /\ p # 0
          /\ 0 - OffsetMax <= p /\ p <= OffsetMax
          /\ loaded' = Append(loaded, p)
          /\ eventsData' = Append(eventsData,
                [offset |-> EventKey(p, Len(eventsData)),
                 script |-> Len(eventsData) + 1])
    /\ UNCHANGED <<events, frozen, attached, pc, ptr, reg, arg, inputs, log,
                   prevReg, startReg, compatVars, overloadVars, containerVars, tagVars, layoutVars, allocVars, typeVars>>

\* releseEvents: sort by offset and hand out the final list
ReleseEvents ==
    /\ ~frozen
    /\ events' = EventChain(eventsData)
    /\ frozen' = TRUE
    /\ UNCHANGED <<loaded, eventsData, attached, pc, ptr, reg, arg, inputs, log,
                   prevReg, startReg, compatVars, overloadVars, containerVars, tagVars, layoutVars, allocVars, typeVars>>

\* parseNode of an events container: _events is the chain or stays nullptr
ParseNode ==
    /\ frozen
    /\ pc = "idle"
    /\ \E att \in BOOLEAN : attached' = att
    /\ pc' = "ready"
    /\ UNCHANGED <<loaded, eventsData, events, frozen, ptr, reg, arg, inputs, log,
                   prevReg, startReg, compatVars, overloadVars, containerVars, tagVars, layoutVars, allocVars, typeVars>>

-----------------------------------------------------------------------------
(* ScriptWorker::execute(const ScriptContainerEvents&, Output&) *)

\* reset(arg); executeBase(script): the step shared by the three call sites
RunScript(V, script) ==
    /\ prevReg' = reg
    /\ startReg' = reset(reg, arg)
    /\ reg' \in ScriptWrites(V)
    /\ log' = Append(log, script)

\* set(arg); auto ptr = c.dataEvents();
ExecuteSet ==
    /\ pc = "ready"
    /\ reg' = set(reg, arg)
    /\ ptr' = IF attached THEN 1 ELSE 0
    /\ pc' = IF attached THEN "before" ELSE "main"
    /\ UNCHANGED <<loaded, eventsData, events, frozen, attached, arg, inputs, log,
                   prevReg, startReg, compatVars, overloadVars, containerVars, tagVars, layoutVars, allocVars, typeVars>>

\* first loop, body: while (*ptr) { reset(arg); executeBase(ptr->data()); ++ptr; }
RunBeforeEvent(V) ==
    /\ pc = "before"
    /\ events[ptr] # 0
    /\ RunScript(V, EventScript(events[ptr]))
    /\ ptr' = ptr + 1
    /\ UNCHANGED <<loaded, eventsData, events, frozen, attached, pc, arg, inputs,
                   compatVars, overloadVars, containerVars, tagVars, layoutVars, allocVars, typeVars>>

\* first loop left without stepping over the empty container
EndBeforeRun_NoSkip ==
    /\ pc = "before"
    /\ events[ptr] = 0
    /\ pc' = "main"
    /\ UNCHANGED <<loaded, eventsData, events, frozen, attached, ptr, reg, arg,
                   inputs, log, prevReg, startReg, compatVars, overloadVars, containerVars, tagVars, layoutVars, allocVars, typeVars>>

\* first loop, exit: *ptr is the empty container; ++ptr steps over it
EndBeforeRun ==
    /\ pc = "before"
    /\ events[ptr] = 0
    /\ ptr' = ptr + 1
    /\ pc' = "main"
    /\ UNCHANGED <<loaded, eventsData, events, frozen, attached, reg, arg, inputs,
                   log, prevReg, startReg, compatVars, overloadVars, containerVars, tagVars, layoutVars, allocVars, typeVars>>

\* reset(arg); executeBase(c.data());
RunMain(V) ==
    /\ pc = "main"
    /\ RunScript(V, MainScript)
    /\ pc' = IF ptr # 0 THEN "after" ELSE "get"
    /\ UNCHANGED <<loaded, eventsData, events, frozen, attached, ptr, arg, inputs,
                   compatVars, overloadVars, containerVars, tagVars, layoutVars, allocVars, typeVars>>

\* second loop, body
RunAfterEvent(V) ==
    /\ pc = "after"
    /\ events[ptr] # 0
    /\ RunScript(V, EventScript(events[ptr]))
    /\ ptr' = ptr + 1
    /\ UNCHANGED <<loaded, eventsData, events, frozen, attached, pc, arg, inputs,
                   compatVars, overloadVars, containerVars, tagVars, layoutVars, allocVars, typeVars>>

\* second loop, exit
EndAfterRun ==
    /\ pc = "after"
    /\ events[ptr] = 0
    /\ pc' = "get"
    /\ UNCHANGED <<loaded, eventsData, events, frozen, attached, ptr, reg, arg,
                   inputs, log, prevReg, startReg, compatVars, overloadVars, containerVars, tagVars, layoutVars, allocVars, typeVars>>

\* get(arg);
ExecuteGet ==
    /\ pc = "get"
    /\ arg' = get(reg, arg)
    /\ pc' = "done"
    /\ UNCHANGED <<loaded, eventsData, events, frozen, attached, ptr, reg, inputs,
                   log, prevReg, startReg, compatVars, overloadVars, containerVars, tagVars, layoutVars, allocVars, typeVars>>

\* SpecWorker: register values Vals, events of priority -1 and +1
InitWorkerRegs == InitWorker(Vals)

NextWorker ==
    \/ LoadEvent(WorkerPriorities)
    \/ ReleseEvents
    \/ ParseNode
    \/ ExecuteSet
    \/ RunBeforeEvent(Vals)
    \/ EndBeforeRun
    \/ RunMain(Vals)
    \/ RunAfterEvent(Vals)
    \/ EndAfterRun
    \/ ExecuteGet

SpecWorker == InitWorkerRegs /\ [][NextWorker]_vars

\* SpecEvents: the whole range of priorities, one register value
InitEvents == InitWorker({0})

NextEvents ==
    \/ LoadEvent(EventPriorities)
    \/ ReleseEvents
    \/ ParseNode
    \/ ExecuteSet
    \/ RunBeforeEvent({0})
    \/ EndBeforeRun
    \/ RunMain({0})
    \/ RunAfterEvent({0})
    \/ EndAfterRun
    \/ ExecuteGet

SpecEvents == InitEvents /\ [][NextEvents]_vars

-----------------------------------------------------------------------------
(* Claims about the execution of an events container *)

\* the events of the released chain with a priority below / above 0, in chain order
C8_BeforeRun ==
    SelectSeq(events, LAMBDA e : e # 0 /\ loaded[e] < 0)
C8_AfterRun ==
    SelectSeq(events, LAMBDA e : e # 0 /\ loaded[e] > 0)

C8_ExpectedLog ==
    IF attached
    THEN [i \in 1 .. Len(C8_BeforeRun) |-> EventScript(C8_BeforeRun[i])]
         \o <<MainScript>>
         \o [i \in 1 .. Len(C8_AfterRun) |-> EventScript(C8_AfterRun[i])]
    ELSE <<MainScript>>

\* C8: an events execution runs the before-run in chain order, the main
\* script exactly once, then the after-run in chain order (only the main
\* script when no chain is attached), and the caller's outputs change only
\* in the final get, after the last script.
C8_ChainThenCopy ==
    /\ [](pc \in {"get", "done"} => log = C8_ExpectedLog)
    /\ [][arg' # arg => (pc = "get" /\ pc' = "done" /\ log = C8_ExpectedLog)]_vars

\* C8 witness: before-event, main, after-event ran and get changed the output.
C8_Witness ==
    /\ pc = "done"
    /\ attached
    /\ Len(C8_BeforeRun) >= 1
    /\ Len(C8_AfterRun) >= 2
    /\ Len(log) = Len(events) - 1
    /\ arg[1] = reg[0]
    /\ arg[1] # startReg[0]

\* C8 witness without a chain: only the main script ran.
C8_WitnessNoChain ==
    /\ pc = "done"
    /\ ~attached
    /\ Len(loaded) >= 1
    /\ log = <<MainScript>>

\* the register of input i of the worker
C9_InputCell(i) == offsetOutput(OutputSizes) + offset(InputSizes, i - 1)
\* the register of slot i of the output tuple
C9_OutputCell(i) == offset(OutputSizes, i - 1)

C10_Pos(script) ==
    IF \E k \in 1 .. Len(log) : log[k] = script
    THEN CHOOSE k \in 1 .. Len(log) : log[k] = script
    ELSE 0

\* (p1, o1) lexicographically smaller than (p2, o2)
C10_LexLess(p1, o1, p2, o2) == p1 < p2 \/ (p1 = p2 /\ o1 < o2)

C10_WitnessRange ==
    /\ pc = "done"
    /\ attached
    /\ Len(loaded) = 3
    /\ loaded[1] = OffsetMax
    /\ loaded[2] = 0 - OffsetMax
    /\ loaded[3] = 0 - OffsetMax
    /\ log = <<EventScript(2), EventScript(3), MainScript, EventScript(1)>>

-----------------------------------------------------------------------------
(* Plain containers: ScriptContainerBase and                                *)
(* ScriptWorker::execute(const ScriptContainer&, Output&).                  *)
(* The bytecode and executeBase are in Script.cpp; they are modelled from   *)
(* section 4.4 of the specification: a vector of operations that read and   *)
(* write the register file.                                                 *)

\* number of executes of one Worker
MaxRuns == 2

\* operations of the bytecode: dst = constant, dst = register
Ops ==
    {<<"set", d, v>> : d \in RegCells, v \in Vals}
    \cup {<<"mov", d, c>> : d \in RegCells, c \in RegCells}

\* the compiled scripts: straight-line bytecode of one or two operations
Scripts == {<<a>> : a \in Ops} \cup {<<a, b>> : a \in Ops, b \in Ops}

\* one handler call: the operation applied to the register file
ExecOp(op, r) ==
    IF op[1] = "set" THEN [r EXCEPT ![op[2]] = op[3]]
    ELSE IF op[1] = "mov" THEN [r EXCEPT ![op[2]] = r[op[3]]]
    ELSE r

RECURSIVE executeBase(_, _)
\* executeBase(proc): the handlers of the bytecode in order, up to its end
executeBase(code, r) ==
    IF code = <<>> THEN r ELSE executeBase(Tail(code), ExecOp(Head(code), r))

\* ScriptContainerBase::operator bool
ContainerBool(p) == p # <<>>

\* state after construction of a ScriptWorker(inputs) and of an empty container
InitPlain ==
    /\ inputs \in [1 .. Len(InputSizes) -> Vals]
    /\ arg \in [1 .. Len(OutputSizes) -> Vals]
    /\ reg = updateBase(inputs)
    /\ pc = "idle"
    /\ log = <<>>
    /\ prevReg = reg
    /\ startReg = reg
    /\ loaded = <<>>
    /\ eventsData = <<>>
    /\ events = <<>>
    /\ frozen = FALSE
    /\ attached = FALSE
    /\ ptr = 0
    /\ ContainerIdle
    /\ CompatIdle
    /\ OverloadIdle
    /\ TagsIdle
    /\ LayoutIdle
    /\ AllocIdle
    /\ TypesIdle

\* parse of a script that compiles: the container gets its bytecode
ParsePlain ==
    /\ pc = "idle"
    /\ proc = <<>>
    /\ proc' \in Scripts
    /\ UNCHANGED <<callArg, progPos, parseVars, eventVars, compatVars, overloadVars, tagVars, layoutVars, allocVars, typeVars>>

\* execute, first statement: set(arg)
PlainSet ==
    /\ pc = "idle"
    /\ ContainerBool(proc)
    /\ callArg' = arg
    /\ prevReg' = reg
    /\ reg' = set(reg, arg)
    /\ pc' = "run"
    /\ UNCHANGED <<loaded, eventsData, events, frozen, attached, ptr, arg, inputs,
                   log, startReg, proc, progPos, parseVars, compatVars, overloadVars, tagVars, layoutVars, allocVars, typeVars>>

\* execute, second statement: executeBase(c.data())
PlainRun ==
    /\ pc = "run"
    /\ startReg' = reg
    /\ reg' = executeBase(proc, reg)
    /\ log' = Append(log, MainScript)
    /\ pc' = "get"
    /\ UNCHANGED <<loaded, eventsData, events, frozen, attached, ptr, arg, inputs,
                   prevReg, containerVars, compatVars, overloadVars, tagVars, layoutVars, allocVars, typeVars>>

\* execute, third statement: get(arg)
PlainGet ==
    /\ pc = "get"
    /\ arg' = get(reg, arg)
    /\ pc' = "done"
    /\ UNCHANGED <<loaded, eventsData, events, frozen, attached, ptr, reg, inputs,
                   log, prevReg, startReg, containerVars, compatVars, overloadVars,
                   tagVars, layoutVars, allocVars, typeVars>>

\* the host calls execute once more on the same Worker, with an Output of its own
PlainAgain ==
    /\ pc = "done"
    /\ Len(log) < MaxRuns
    /\ arg' \in [1 .. Len(OutputSizes) -> Vals]
    /\ pc' = "idle"
    /\ UNCHANGED <<loaded, eventsData, events, frozen, attached, ptr, reg, inputs,
                   log, prevReg, startReg, containerVars, compatVars, overloadVars,
                   tagVars, layoutVars, allocVars, typeVars>>

NextPlain ==
    \/ ParsePlain
    \/ PlainSet
    \/ PlainRun
    \/ PlainGet
    \/ PlainAgain

SpecPlain == InitPlain /\ [][NextPlain]_vars

-----------------------------------------------------------------------------
(* Claims about the execution of a plain container *)

\* set(arg) copied every slot of the caller's Output into the output region
C11_CopiedIn ==
    \A i \in 1 .. Len(OutputSizes) : startReg[C9_OutputCell(i)] = callArg[i]

\* C11 as claimed: after execute(c, out) of a plain container every slot of
\* the caller's Output was copied into the output region before the script
\* ran, and every slot of the caller's Output equals the value its output
\* register held when the script halted.
C11_EverySlotCopiedBack ==
    pc = "done" =>
      /\ C11_CopiedIn
      /\ \A i \in 1 .. Len(OutputSizes) : arg[i] = reg[C9_OutputCell(i)]

\* C11 amended: every slot is copied in before the script runs; after the
\* call every slot declared as a reference equals the value its output
\* register held when the script halted, and every slot declared by value
\* still holds the value the caller passed.
C11_ReferenceSlotsCopiedBack ==
    pc = "done" =>
      /\ C11_CopiedIn
      /\ \A i \in 1 .. Len(OutputSizes) :
            arg[i] = IF OutputIsOutput[i] THEN reg[C9_OutputCell(i)] ELSE callArg[i]

\* C11 witness: the script changed both output registers; the reference slot
\* took the new value, the by-value slot did not.
C11_Witness ==
    /\ pc = "done"
    /\ reg[C9_OutputCell(1)] # callArg[1]
    /\ arg[1] = reg[C9_OutputCell(1)]
    /\ reg[C9_OutputCell(2)] # callArg[2]
    /\ arg[2] = callArg[2]

-----------------------------------------------------------------------------
(* ScriptWorker<Output, Args...> of any script kind: the constructor and     *)
(* updateBase on the bytes of the register file.                             *)

\* number of types in Output and in Args (the code allows ScriptMaxOut = 4
\* and ScriptMaxArg = 16)
MaxLayoutOut == 2
MaxLayoutArgs == 3

\* sizeof(void*)
PtrSize == 8
\* ScriptMaxReg = 64 * sizeof(void*)
ScriptMaxReg == 64 * PtrSize

\* sizeof of the register types: ScriptTag (Uint8 index), int, pointer
TypeSizes == {1, IntSize, PtrSize}

\* tuples of at most n types
TypeLists(n) == UNION {[1 .. k -> TypeSizes] : k \in 0 .. n}

\* values of a type of k bytes, as bytes: all bits clear, all bits set
ValuesOfSize(k) == {[j \in 1 .. k |-> 0], [j \in 1 .. k |-> 255]}

\* ref<T>(at) = value: the bytes of one register
writeBytes(r, at, value) ==
    [b \in DOMAIN r |->
        IF at <= b /\ b < at + Len(value) THEN value[b - at + 1] ELSE r[b]]

RECURSIVE forRegBytes(_, _, _, _, _)
\* forRegImplLoop with RegSet at every position, from position I on:
\* ref<CurrentType>(BaseOffset + offset<Args...>(I)) = std::get<I>(args)
forRegBytes(r, base, sizes, args, I) ==
    IF I >= Len(sizes) THEN r
    ELSE forRegBytes(writeBytes(r, base + offset(sizes, I), args[I + 1]),
                     base, sizes, args, I + 1)

\* updateBase writing the inputs from offset 0, over the outputs
updateBaseBytes_NoOutputOffset(outS, inS, args) ==
    forRegBytes([b \in 0 .. ScriptMaxReg - 1 |-> 0], 0, inS, args, 0)

\* updateBase<Output>(args...): memset(&reg, 0, ScriptMaxReg), then
\* forReg<offsetOutput(Output), SetAllRegs, Args...>(std::tie(args...))
updateBaseBytes(outS, inS, args) ==
    forRegBytes([b \in 0 .. ScriptMaxReg - 1 |-> 0], offsetOutput(outS), inS, args, 0)

\* a script kind is declared: the types of Output and of Args; its outputs
\* are references, which the constructor does not look at
InitLayout ==
    /\ outSizes \in TypeLists(MaxLayoutOut)
    /\ inSizes \in TypeLists(MaxLayoutArgs)
    /\ outRefs = [i \in 1 .. Len(outSizes) |-> TRUE]
    /\ pc = "declared"
    /\ loaded = <<>>
    /\ eventsData = <<>>
    /\ events = <<>>
    /\ frozen = FALSE
    /\ attached = FALSE
    /\ ptr = 0
    /\ reg = <<>>
    /\ arg = <<>>
    /\ inputs = <<>>
    /\ log = <<>>
    /\ prevReg = <<>>
    /\ startReg = <<>>
    /\ CompatIdle
    /\ OverloadIdle
    /\ ContainerIdle
    /\ TagsIdle
    /\ AllocIdle
    /\ TypesIdle

\* ScriptWorker(args...): updateBase<Output>(args...)
Construct ==
    /\ pc = "declared"
    /\ \E a \in [1 .. Len(inSizes) -> UNION {ValuesOfSize(k) : k \in TypeSizes}] :
          /\ \A i \in 1 .. Len(inSizes) : a[i] \in ValuesOfSize(inSizes[i])
          /\ inputs' = a
          /\ reg' = updateBaseBytes(outSizes, inSizes, a)
    /\ pc' = "constructed"
    /\ UNCHANGED <<loaded, eventsData, events, frozen, attached, ptr, arg, log,
                   prevReg, startReg, compatVars, overloadVars, containerVars,
                   tagVars, layoutVars, allocVars, typeVars>>

NextLayout == Construct

SpecLayout == InitLayout /\ [][NextLayout]_vars

RECURSIVE C12_Sum(_)
\* total size of a list of types
C12_Sum(sizes) == IF sizes = <<>> THEN 0 ELSE Head(sizes) + C12_Sum(Tail(sizes))

\* offset of input slot i: the total size of the declared outputs plus the
\* sizes of inputs 1 .. i-1
C12_InputOffset(i) == C12_Sum(outSizes) + C12_Sum(SubSeq(inSizes, 1, i - 1))

\* C12: after a Worker is constructed with inputs a1..an, input slot i, at
\* offset (total size of the outputs) + (sizes of inputs 1..i-1), holds ai,
\* and every byte of the register file outside the input slots is zero.
C12_ZeroedThenInputs ==
    pc = "constructed" =>
      /\ DOMAIN reg = 0 .. ScriptMaxReg - 1
      /\ \A i \in 1 .. Len(inSizes) : \A j \in 1 .. inSizes[i] :
            reg[C12_InputOffset(i) + j - 1] = inputs[i][j]
      /\ \A b \in DOMAIN reg \ UNION {C12_InputOffset(i) .. C12_InputOffset(i) + inSizes[i] - 1 :
                                        i \in 1 .. Len(inSizes)} :
            reg[b] = 0

\* C12 witness: three inputs of different sizes behind two outputs, the
\* second and third input with all bits set.
C12_Witness ==
    /\ pc = "constructed"
    /\ Len(outSizes) = 2
    /\ Len(inSizes) = 3
    /\ inSizes[1] # inSizes[2]
    /\ inSizes[2] # inSizes[3]
    /\ inputs[1][1] = 0
    /\ inputs[2][1] = 255
    /\ reg[C12_InputOffset(3) + inSizes[3] - 1] = 255
    /\ reg[C12_InputOffset(3) + inSizes[3]] = 0

-----------------------------------------------------------------------------
(* The dispatch loop of executeBase, one handler call per step.              *)
(* executeBase is in Script.cpp; the loop is modelled from section 4.4 of    *)
(* the specification: read the handler at pc, call it, go on while it        *)
(* returns Continue.                                                         *)

\* enum RetEnum
RetContinue == 0
RetEnd == 1
RetError == 2

\* the end of a `loop` block: back to its first operation
Jumps == {<<"jmp", 0, 0>>}
\* the handlers that answer End and Error
Halts == {<<"end", 0, 0>>, <<"err", 0, 0>>}

\* compiled scripts with control flow: a register operation, then a second
\* operation, the end of a loop or a halt, then a halt
LoopScripts ==
    {<<a, b, h>> : a \in Ops, b \in Ops \cup Jumps \cup Halts, h \in Halts}

\* the value a handler returns
HandlerRet(op) ==
    IF op[1] = "end" THEN RetEnd
    ELSE IF op[1] = "err" THEN RetError
    ELSE RetContinue

\* the program position a handler leaves
HandlerPos(op, pos) == IF op[1] = "jmp" THEN op[2] ELSE pos + 1

\* parse of a script with control flow that compiles
ParseLoop ==
    /\ pc = "idle"
    /\ proc = <<>>
    /\ proc' \in LoopScripts
    /\ UNCHANGED <<callArg, progPos, parseVars, eventVars, compatVars, overloadVars, tagVars,
                   layoutVars, allocVars, typeVars>>

\* one turn of the loop of executeBase: the handler at the program position
\* runs; executeBase returns when it answers End or Error
DispatchStep ==
    /\ pc = "run"
    /\ LET op == proc[progPos + 1]
       IN /\ reg' = ExecOp(op, reg)
          /\ IF HandlerRet(op) = RetContinue
             THEN /\ progPos' = HandlerPos(op, progPos)
                  /\ pc' = "run"
                  /\ log' = log
             ELSE /\ progPos' = 0
                  /\ pc' = "get"
                  /\ log' = Append(log, MainScript)
    /\ UNCHANGED <<loaded, eventsData, events, frozen, attached, ptr, arg, inputs,
                   prevReg, startReg, proc, callArg, parseVars, compatVars, overloadVars,
                   tagVars, layoutVars, allocVars, typeVars>>

NextDispatch ==
    \/ ParseLoop
    \/ PlainSet
    \/ DispatchStep
    \/ PlainGet

\* execute runs on the calling thread to completion: every statement of
\* execute and every turn of the dispatch loop is eventually taken
SpecDispatch ==
    /\ InitPlain
    /\ [][NextDispatch]_vars
    /\ WF_vars(ParseLoop)
    /\ WF_vars(PlainSet)
    /\ WF_vars(DispatchStep)
    /\ WF_vars(PlainGet)

\* C13: every execution of a successfully compiled script halts: once
\* executeBase has started, a handler returns End or Error and execute
\* goes on to copy the outputs back; no script runs forever.
C13_ExecutionHalts == (pc = "run") ~> (pc = "get")

-----------------------------------------------------------------------------
(* ScriptParserBase::parseBase and parseNode: compiling a script string     *)
(* into a container, with the default script as fallback.                   *)
(* Both are in Script.cpp; they are modelled from sections 4.3 and 7 of the *)
(* specification. They are const member functions (lines 998, 1001).        *)

\* number of statements of a script string
MaxStatements == 2

\* statements of a script string: two operations, the declaration of a
\* local register, and a statement that does not compile
StmtVar == <<"var", 0, 0>>
StmtBad == <<"bad", 0, 0>>
Statements == {<<"set", 0, 1>>, <<"mov", 0, 8>>, StmtVar, StmtBad}

\* the script strings
Texts == UNION {[1 .. n -> Statements] : n \in 1 .. MaxStatements}

\* the writer of one parse after one more statement: its own bytecode, its
\* own copy of the register counter and of the names
writeStatement(w, stmt) ==
    IF stmt = StmtVar
    THEN [w EXCEPT !.regIndexUsed = w.regIndexUsed + IntSize,
                   !.refList = Append(w.refList, "local")]
    ELSE [w EXCEPT !.proc = Append(w.proc, stmt)]

RECURSIVE parseStatements(_, _)
\* the statements in order, up to the first one that does not compile
parseStatements(text, w) ==
    IF text = <<>> THEN [ok |-> TRUE, writer |-> w]
    ELSE IF Head(text) = StmtBad THEN [ok |-> FALSE, writer |-> w]
    ELSE parseStatements(Tail(text), writeStatement(w, Head(text)))

\* the writer a parse starts with
newWriter(p) == [proc |-> <<>>, regIndexUsed |-> p.regUsed, refList |-> p.refList]

\* parseBase that hands over what it built when it stops at an error
parseBase_KeepsPartial(p, scr, text) ==
    LET res == parseStatements(text, newWriter(p))
    IN IF res.ok
       THEN [ok |-> TRUE, proc |-> Append(res.writer.proc, <<"end", 0, 0>>), parser |-> p]
       ELSE [ok |-> FALSE, proc |-> res.writer.proc,
             parser |-> [p EXCEPT !.regUsed = res.writer.regIndexUsed,
                                  !.refList = res.writer.refList]]

\* parseBase(scr, parentName, code) const: on success the container gets the
\* bytecode, closed by the halting operation; on an error the writer is
\* dropped and the container and the parser stay as they were
parseBase(p, scr, text) ==
    LET res == parseStatements(text, newWriter(p))
    IN IF res.ok
       THEN [ok |-> TRUE, proc |-> Append(res.writer.proc, <<"end", 0, 0>>), parser |-> p]
       ELSE [ok |-> FALSE, proc |-> scr, parser |-> p]

\* parseNode(container, type, node) const: the script of the node, and the
\* default script when the container is still empty and a default was set
parseNode(p, scr, text) ==
    LET first == parseBase(p, scr, text)
    IN IF ~ContainerBool(first.proc) /\ p.defaultScript # <<>>
       THEN parseBase(first.parser, first.proc, p.defaultScript)
       ELSE first

\* ScriptContainerEventsBase::operator bool
ContainerEventsBool(c) == TRUE

\* data() without the test: the pointer of the vector also when it is empty
ContainerData_Unchecked(p) == <<"data", p>>

\* ScriptContainerBase::data(): *this ? _proc.data() : nullptr
ContainerData(p) == IF ContainerBool(p) THEN <<"data", p>> ELSE <<"nullptr">>

\* setDefault(s)
SetDefault ==
    /\ target = "none"
    /\ parser.defaultScript = <<>>
    /\ \E s \in Texts : parser' = [parser EXCEPT !.defaultScript = s]
    /\ UNCHANGED <<proc, callArg, progPos, current, source, target, eventVars,
                   compatVars, overloadVars, tagVars, layoutVars, allocVars, typeVars>>

\* ScriptContainer::load: parent.parseNode(*this, type, node) on a new container
LoadPlain ==
    /\ target = "none"
    /\ pc = "idle"
    /\ \E text \in Texts :
          LET res == parseNode(parser, <<>>, text)
          IN /\ proc' = res.proc
             /\ parser' = res.parser
             /\ source' = text
    /\ target' = "plain"
    /\ UNCHANGED <<callArg, progPos, current, eventVars, compatVars, overloadVars,
                   tagVars, layoutVars, allocVars, typeVars>>

\* ScriptContainerEvents::load: parseNode fills _current of a new container
\* and attaches the events of the parser
LoadEvents ==
    /\ target = "none"
    /\ pc = "idle"
    /\ \E text \in Texts :
          LET res == parseNode(parser, <<>>, text)
          IN /\ current' = res.proc
             /\ parser' = res.parser
             /\ source' = text
    /\ \E att \in BOOLEAN : attached' = att
    /\ target' = "events"
    /\ UNCHANGED <<proc, callArg, progPos, loaded, eventsData, events, frozen, pc,
                   ptr, reg, arg, inputs, log, prevReg, startReg, compatVars,
                   overloadVars, tagVars, layoutVars, allocVars, typeVars>>

NextParse ==
    \/ SetDefault
    \/ LoadPlain
    \/ LoadEvents
    \/ PlainSet
    \/ PlainRun
    \/ PlainGet

SpecParse == InitPlain /\ [][NextParse]_vars

-----------------------------------------------------------------------------
(* Claims about parsing into a container *)

\* a script string compiles when each of its statements does
C14_Compiles(text) == \A i \in 1 .. Len(text) : text[i] # StmtBad

\* the bytecode of a script string that compiles
C14_Compiled(text) ==
    Append(SelectSeq(text, LAMBDA st : st # StmtVar), <<"end", 0, 0>>)

\* the bytecode of the container the latest parseNode filled
C14_Container == IF target = "plain" THEN proc ELSE current

\* the truthy check the host makes before it executes that container
C14_Truthy ==
    IF target = "plain" THEN ContainerBool(proc) ELSE ContainerEventsBool(current)

\* C14: when the script string fails to compile, the container (plain or
\* events-typed) holds the compiled default script if the host supplied one
\* that compiles; otherwise the container is empty and its truthy check is
\* false, so that the host skips execution.
C14_FallbackOrEmpty ==
    (target # "none" /\ ~C14_Compiles(source)) =>
      IF parser.defaultScript # <<>> /\ C14_Compiles(parser.defaultScript)
      THEN C14_Container = C14_Compiled(parser.defaultScript)
      ELSE C14_Container = <<>> /\ ~C14_Truthy

\* C15: a parse that ends in a compile error leaves the symbol table of the
\* parser (types, registers and constants, operations, names, register
\* counter) exactly as it was before the parse, and leaves no partially built
\* bytecode in the container: the container is empty or holds the whole
\* compiled default script.
C15_Transactional ==
    [][(target = "none" /\ target' # "none" /\ ~C14_Compiles(source')) =>
         /\ parser' = parser
         /\ LET c == IF target' = "plain" THEN proc' ELSE current'
            IN \/ c = <<>>
               \/ /\ parser.defaultScript # <<>>
                  /\ C14_Compiles(parser.defaultScript)
                  /\ c = C14_Compiled(parser.defaultScript)]_vars

\* C15 witness: the script string and the default script both failed after
\* a statement that emitted bytecode and one that declared a local register.
C15_Witness ==
    /\ target = "plain"
    /\ source = <<<<"set", 0, 1>>, StmtBad>>
    /\ parser.defaultScript = <<StmtVar, StmtBad>>
    /\ parser.regUsed = ParserInit.regUsed
    /\ parser.refList = ParserInit.refList
    /\ proc = <<>>

\* C17: a container (ScriptContainerBase: a plain container, or the main
\* script of an events container) tests true iff its bytecode vector is not
\* empty, and data() is the null pointer exactly when it tests false.
C17_TruthyIffNonEmpty ==
    \A c \in {proc, current} :
        /\ ContainerBool(c) <=> Len(c) > 0
        /\ (ContainerData(c) = <<"nullptr">>) <=> ~ContainerBool(c)

\* C17 witness: a container that got bytecode next to one that is empty.
C17_Witness ==
    /\ target = "plain"
    /\ Len(proc) > 1
    /\ ContainerData(proc) = <<"data", proc>>
    /\ Len(current) = 0
    /\ ContainerData(current) = <<"nullptr">>

-----------------------------------------------------------------------------
(* Determinism of execute *)

\* the Output a freshly constructed Worker(inputs) returns for the script
\* of the container and the Output the caller passed
C16_FreshRun ==
    get(executeBase(proc, set(updateBase(inputs), callArg)), callArg)

\* C16 as claimed: the outputs of an execute depend only on the script, the
\* inputs given to the Worker and the initial outputs given to execute: a
\* run returns what a run on a freshly constructed Worker returns, also on a
\* Worker that has already executed a script.
C16_SameAsFreshWorker ==
    pc = "done" => arg = C16_FreshRun

\* the registers outside the output region are as the constructor left them
C16_AsConstructed(r) ==
    \A c \in RegCells \ OutputCells : r[c] = updateBase(inputs)[c]

\* C16 amended: a run returns what a run on a freshly constructed Worker
\* returns whenever it starts with the input and local registers as the
\* constructor left them - on a new Worker, or on a used one whose earlier
\* script wrote output registers only; the values an earlier script left in
\* the output registers never reach the outputs.
C16_SameAsFreshWhenRegsAsConstructed ==
    (pc = "done" /\ C16_AsConstructed(prevReg)) => arg = C16_FreshRun

\* C16 witness: the second run of a Worker started with stale output
\* registers that differ from the Output passed, and returned what a new
\* Worker returns, an Output that differs from the one passed.
C16_Witness ==
    /\ pc = "done"
    /\ Len(log) = 2
    /\ C16_AsConstructed(prevReg)
    /\ prevReg[C9_OutputCell(1)] # callArg[1]
    /\ prevReg[C9_OutputCell(2)] # callArg[2]
    /\ arg = C16_FreshRun
    /\ arg # callArg

-----------------------------------------------------------------------------
(* ScriptTag<T, I = Uint8> and the tag names of ScriptGlobal.                *)
(* addTag(ArgEnum, ScriptRef, size_t) and getTag(ArgEnum, ScriptRef) are in  *)
(* Script.cpp; they are modelled from section 4.6 of the specification.      *)

\* ScriptTag::limit(): std::numeric_limits<Uint8>::max()
TagLimit == 255

\* ScriptTag::make(i): { static_cast<I>(i) }
make(i) == i % (TagLimit + 1)

\* ScriptTag::get(): static_cast<size_t>(index)
TagGet(t) == t

\* ScriptTag::operator bool
TagBool(t) == t # 0

\* isValid that lets the zero index pass
isValid_ZeroPasses(i) == i <= TagLimit

\* ScriptTag::isValid(i): i && i <= limit()
isValid(i) == i # 0 /\ i <= TagLimit

\* ScriptTag::getNullTag()
getNullTag == make(0)

\* the names registered for the kind
TagNameSet == {tagNames[i] : i \in 1 .. Len(tagNames)}

\* getTag(type, s): the index of the name, 0 when it is not registered
getTagBase(names, s) ==
    IF \E i \in 1 .. Len(names) : names[i] = s
    THEN CHOOSE i \in 1 .. Len(names) : names[i] = s
    ELSE 0

\* ScriptGlobal::getTag<Tag>(s): Tag::make(getTag(Tag::type(), s))
getTag(names, s) == make(getTagBase(names, s))

\* ScriptGlobal::addTag<Tag>(s, valueTypeName) with a name out of pool:
\* a new name gets the next index of the kind, while the kind has fewer
\* names than its limit; a registered name is a DuplicateTagName error
AddTag(pool) ==
    /\ tagPhase = "init"
    /\ \E s \in pool :
          IF s \in TagNameSet
          THEN /\ tagError' = "DuplicateTagName"
               /\ UNCHANGED <<tagNames, lastTag>>
          ELSE /\ Len(tagNames) < TagLimit
               /\ tagNames' = Append(tagNames, s)
               /\ lastTag' = make(Len(tagNames) + 1)
               /\ tagError' = "none"
    /\ UNCHANGED <<values, lastSet, saved, restored, tagPhase, compatVars,
                   overloadVars, eventVars, containerVars, layoutVars, allocVars, typeVars>>

\* a tag kind after addTagType: no names yet
InitTags ==
    /\ TagsIdle
    /\ CompatIdle
    /\ OverloadIdle
    /\ EventsIdle
    /\ ContainerIdle
    /\ LayoutIdle
    /\ AllocIdle
    /\ TypesIdle

\* the host adds the names 1, 2, 3, ... and now and then the latest one again
NextTags == AddTag({IF tagNames = <<>> THEN 1 ELSE Len(tagNames), Len(tagNames) + 1})

SpecTags == InitTags /\ [][NextTags]_vars

-----------------------------------------------------------------------------
(* ScriptValues<T, I>: the values of the tags of one host object.            *)
(* setBase, getBase, loadBase and saveBase are in Script.cpp; they are       *)
(* modelled from section 4.6 of the specification: a dense vector<int>       *)
(* indexed by the tag index, saved and loaded by tag name.                   *)

\* number of tag names of the kind
MaxTagNames == 3

\* the values given to set
TagVals == {0, 1, 2}

\* mark of a tag that no set was called for
NeverSet == 0 - 1

\* getBase(t): the element of the vector, 0 when the vector is shorter
getBase(vals, t) == IF t < Len(vals) THEN vals[t + 1] ELSE 0

\* setBase that drops the old elements when it grows the vector
setBase_GrowClears(vals, t, i) ==
    IF t < Len(vals) THEN [vals EXCEPT ![t + 1] = i]
    ELSE [k \in 1 .. t + 1 |-> IF k = t + 1 THEN i ELSE 0]

\* setBase(t, i): the vector grows, filled with 0, up to index t; element t = i
setBase(vals, t, i) ==
    LET grown == IF t < Len(vals) THEN vals
                 ELSE vals \o [k \in 1 .. t + 1 - Len(vals) |-> 0]
    IN [grown EXCEPT ![t + 1] = i]

\* saveBase(node, shared, type): the entries that are not 0, in index order,
\* each under the name of its tag
saveBase(vals, names) ==
    LET idx == SelectSeq([k \in 1 .. Len(vals) |-> k - 1],
                         LAMBDA t : t >= 1 /\ t <= Len(names) /\ vals[t + 1] # 0)
    IN [k \in 1 .. Len(idx) |-> <<names[idx[k]], vals[idx[k] + 1]>>]

RECURSIVE loadBase_ByPosition(_, _, _)
\* loadBase that takes the k-th entry of the node for the k-th tag
loadBase_ByPosition(vals, node, names) ==
    IF node = <<>> THEN vals
    ELSE setBase(loadBase_ByPosition(vals, SubSeq(node, 1, Len(node) - 1), names),
                 Len(node), node[Len(node)][2])

RECURSIVE loadBase(_, _, _)
\* loadBase(node, shared, type): every key of the node is resolved to the
\* index of its tag and the value is set; unknown names are skipped
loadBase(vals, node, names) ==
    IF node = <<>> THEN vals
    ELSE LET t == getTagBase(names, Head(node)[1])
         IN loadBase(IF t # 0 THEN setBase(vals, t, Head(node)[2]) ELSE vals,
                     Tail(node), names)

\* a tag kind without names, a host object with an empty ScriptValues
InitValues ==
    /\ tagNames = <<>>
    /\ lastTag = 0
    /\ tagError = "none"
    /\ values = <<>>
    /\ lastSet = [t \in 1 .. MaxTagNames |-> NeverSet]
    /\ saved = <<>>
    /\ restored = <<>>
    /\ tagPhase = "init"
    /\ CompatIdle
    /\ OverloadIdle
    /\ EventsIdle
    /\ ContainerIdle
    /\ LayoutIdle
    /\ AllocIdle
    /\ TypesIdle

\* ScriptValues::set(t, i) with a Tag that addTag returned
SetValue ==
    /\ tagPhase = "init"
    /\ \E i \in 1 .. Len(tagNames), v \in TagVals :
          /\ values' = setBase(values, TagGet(make(i)), v)
          /\ lastSet' = [lastSet EXCEPT ![i] = v]
    /\ UNCHANGED <<tagNames, lastTag, tagError, saved, restored, tagPhase,
                   compatVars, overloadVars, eventVars, containerVars, layoutVars, allocVars, typeVars>>

\* ScriptValues::save(node, shared)
SaveValues ==
    /\ tagPhase = "init"
    /\ saved' = saveBase(values, tagNames)
    /\ tagPhase' = "saved"
    /\ UNCHANGED <<tagNames, lastTag, tagError, values, lastSet, restored,
                   compatVars, overloadVars, eventVars, containerVars, layoutVars, allocVars, typeVars>>

\* ScriptValues::load(node, shared) of a new ScriptValues
LoadValues ==
    /\ tagPhase = "saved"
    /\ restored' = loadBase(<<>>, saved, tagNames)
    /\ tagPhase' = "loaded"
    /\ UNCHANGED <<tagNames, lastTag, tagError, values, lastSet, saved,
                   compatVars, overloadVars, eventVars, containerVars, layoutVars, allocVars, typeVars>>

NextValues ==
    \/ AddTag(1 .. MaxTagNames)
    \/ SetValue
    \/ SaveValues
    \/ LoadValues

SpecValues == InitValues /\ [][NextValues]_vars

\* C18: after any sequence of sets, get(t) is the value of the latest
\* set(t, v), or 0 when t was never set, also for indexes beyond the end of
\* the vector; set grows the vector up to the tag it sets.
C18_GetReturnsLatestSet ==
    /\ \A t \in 0 .. MaxTagNames + 1 :
          getBase(values, t) =
             IF t \in DOMAIN lastSet /\ lastSet[t] # NeverSet THEN lastSet[t] ELSE 0
    /\ \A t \in DOMAIN lastSet : lastSet[t] # NeverSet => Len(values) > t

\* C18 witness: the first and the last tag were set, the last one first;
\* the tag between them never was.
C18_Witness ==
    /\ Len(tagNames) = 3
    /\ lastSet[1] = 1
    /\ lastSet[2] = NeverSet
    /\ lastSet[3] = 2
    /\ values = <<0, 1, 0, 2>>

-----------------------------------------------------------------------------
(* Register allocation: ScriptParserBase::addScriptReg for the declared      *)
(* outputs and inputs of a script kind, and the writer of one parse for the  *)
(* `var` locals of a script. Both are in Script.cpp; they are modelled from  *)
(* section 4.3 of the specification, on the counter the header declares:     *)
(* Uint8 _regUsed (line 907), register offsets of type RegEnum : Uint8.      *)

\* depth of the blocks of a script inside its outermost block
MaxBlocks == 1

\* sizeof of the types of the registers that are declared: int, pointer
RegSizes == {IntSize, PtrSize}

\* static_cast<Uint8>
Uint8(n) == n % 256

\* one declaration of a register of `size` bytes on the counter `used`: over
\* the cap it fails, else the register gets the counter as its offset and
\* the counter moves on by its size
addScriptReg(used, size) ==
    IF used + size > ScriptMaxReg
    THEN [ok |-> FALSE, reg |-> <<>>, used |-> used]
    ELSE [ok |-> TRUE, reg |-> <<used, size>>, used |-> Uint8(used + size)]

\* a parser of a script kind is about to declare its registers
InitAlloc ==
    /\ allocPhase = "outputs"
    /\ declCount = 0
    /\ regUsed = 0
    /\ regIndexUsed = 0
    /\ blocks = <<>>
    /\ regBytes = 0
    /\ lastReg = <<>>
    /\ allocError = "none"
    /\ CompatIdle
    /\ OverloadIdle
    /\ EventsIdle
    /\ ContainerIdle
    /\ TagsIdle
    /\ LayoutIdle
    /\ TypesIdle

\* addRegImpl(true, argOutputNames...): the next output
DeclareOutput ==
    /\ allocPhase = "outputs"
    /\ declCount < MaxLayoutOut
    /\ \E size \in RegSizes :
          LET a == addScriptReg(regUsed, size)
          IN IF a.ok
             THEN /\ regUsed' = a.used
                  /\ regBytes' = regBytes + size
                  /\ lastReg' = a.reg
                  /\ declCount' = declCount + 1
                  /\ UNCHANGED <<allocPhase, allocError>>
             ELSE /\ allocError' = "RegisterFileOverflow"
                  /\ allocPhase' = "failed"
                  /\ lastReg' = <<>>
                  /\ UNCHANGED <<regUsed, regBytes, declCount>>
    /\ UNCHANGED <<regIndexUsed, blocks, compatVars, overloadVars, eventVars,
                   containerVars, tagVars, layoutVars, typeVars>>

\* the end of the pack argOutputNames...; addRegImpl(false, argNames...) starts
EndOutputs ==
    /\ allocPhase = "outputs"
    /\ allocPhase' = "inputs"
    /\ declCount' = 0
    /\ UNCHANGED <<regUsed, regIndexUsed, blocks, regBytes, lastReg, allocError,
                   compatVars, overloadVars, eventVars, containerVars, tagVars,
                   layoutVars, typeVars>>

\* addRegImpl(false, argNames...): the next input
DeclareInput ==
    /\ allocPhase = "inputs"
    /\ declCount < MaxLayoutArgs
    /\ \E size \in RegSizes :
          LET a == addScriptReg(regUsed, size)
          IN IF a.ok
             THEN /\ regUsed' = a.used
                  /\ regBytes' = regBytes + size
                  /\ lastReg' = a.reg
                  /\ declCount' = declCount + 1
                  /\ UNCHANGED <<allocPhase, allocError>>
             ELSE /\ allocError' = "RegisterFileOverflow"
                  /\ allocPhase' = "failed"
                  /\ lastReg' = <<>>
                  /\ UNCHANGED <<regUsed, regBytes, declCount>>
    /\ UNCHANGED <<regIndexUsed, blocks, compatVars, overloadVars, eventVars,
                   containerVars, tagVars, layoutVars, typeVars>>

\* a parse starts: its writer counts registers on from the parser's counter,
\* and the script is the outermost block
StartParse ==
    /\ allocPhase = "inputs"
    /\ allocPhase' = "parse"
    /\ declCount' = 0
    /\ regIndexUsed' = regUsed
    /\ blocks' = <<<<regUsed, regBytes>>>>
    /\ lastReg' = <<>>
    /\ UNCHANGED <<regUsed, regBytes, allocError, compatVars, overloadVars,
                   eventVars, containerVars, tagVars, layoutVars, typeVars>>

\* `var TYPE NAME;`: a local, allocated at the writer's counter. A script
\* goes on declaring until its registers add up to more than the cap.
DeclareLocal ==
    /\ allocPhase = "parse"
    /\ regBytes <= ScriptMaxReg
    /\ \E size \in RegSizes :
          LET a == addScriptReg(regIndexUsed, size)
          IN IF a.ok
             THEN /\ regIndexUsed' = a.used
                  /\ regBytes' = regBytes + size
                  /\ lastReg' = a.reg
                  /\ UNCHANGED <<allocPhase, allocError>>
             ELSE /\ allocError' = "RegisterFileOverflow"
                  /\ allocPhase' = "failed"
                  /\ lastReg' = <<>>
                  /\ UNCHANGED <<regIndexUsed, regBytes>>
    /\ UNCHANGED <<declCount, regUsed, blocks, compatVars, overloadVars, eventVars,
                   containerVars, tagVars, layoutVars, typeVars>>

\* `if` / `loop`: a block opens
OpenBlock ==
    /\ allocPhase = "parse"
    /\ Len(blocks) < MaxBlocks + 1
    /\ blocks' = Append(blocks, <<regIndexUsed, regBytes>>)
    /\ lastReg' = <<>>
    /\ UNCHANGED <<allocPhase, declCount, regUsed, regIndexUsed, regBytes, allocError,
                   compatVars, overloadVars, eventVars, containerVars, tagVars,
                   layoutVars, typeVars>>

\* `end`: the block closes and its locals are reclaimed
CloseBlock ==
    /\ allocPhase = "parse"
    /\ Len(blocks) > 1
    /\ regIndexUsed' = blocks[Len(blocks)][1]
    /\ regBytes' = blocks[Len(blocks)][2]
    /\ blocks' = SubSeq(blocks, 1, Len(blocks) - 1)
    /\ lastReg' = <<>>
    /\ UNCHANGED <<allocPhase, declCount, regUsed, allocError, compatVars,
                   overloadVars, eventVars, containerVars, tagVars, layoutVars,
                   typeVars>>

\* the end of the script: the writer goes, the parser keeps its counter
EndParse ==
    /\ allocPhase = "parse"
    /\ Len(blocks) = 1
    /\ allocPhase' = "done"
    /\ regIndexUsed' = 0
    /\ regBytes' = blocks[1][2]
    /\ blocks' = <<>>
    /\ lastReg' = <<>>
    /\ UNCHANGED <<declCount, regUsed, allocError, compatVars, overloadVars,
                   eventVars, containerVars, tagVars, layoutVars, typeVars>>

NextAlloc ==
    \/ DeclareOutput
    \/ EndOutputs
    \/ DeclareInput
    \/ StartParse
    \/ DeclareLocal
    \/ OpenBlock
    \/ CloseBlock
    \/ EndParse

SpecAlloc == InitAlloc /\ [][NextAlloc]_vars

\* C21: register allocation never hands out a slot that extends past the
\* capacity of the register file (ScriptMaxReg), and a declaration that
\* would take the registers over the capacity fails with
\* RegisterFileOverflow instead of being given an offset: the registers
\* that were given an offset and are not reclaimed never add up to more
\* than the capacity.
C21_OverflowIsRejected ==
    /\ lastReg # <<>> => lastReg[1] + lastReg[2] <= ScriptMaxReg
    /\ regBytes <= ScriptMaxReg

-----------------------------------------------------------------------------
(* ScriptWorkerBase::set, get and reset of any script kind, on the bytes of  *)
(* the register file, around the run of a script.                           *)

\* an Output whose slot i has every byte equal to base + i
MarkBases == {16, 32}
OutputMarks(base) == [i \in 1 .. Len(outSizes) |-> [j \in 1 .. outSizes[i] |-> base + i]]
\* the inputs of the worker: every byte of input j is 100 + j
InputMarks == [i \in 1 .. Len(inSizes) |-> [j \in 1 .. inSizes[i] |-> 100 + i]]

\* ref<T>(at): the bytes of one register
readBytes(r, at, size) == [j \in 1 .. size |-> r[at + j - 1]]

RECURSIVE forRegBytesFilter(_, _, _, _, _, _)
\* forRegImpl<BaseOffset, Filter, Args...> for a filter of RegSet and RegNone,
\* from position I on: forRegImplLoop writes where the filter says RegSet
forRegBytesFilter(r, base, sizes, filter, args, I) ==
    IF I >= Len(sizes) THEN r
    ELSE forRegBytesFilter(
            IF filter[I + 1]
            THEN writeBytes(r, base + offset(sizes, I), args[I + 1])
            ELSE r,
            base, sizes, filter, args, I + 1)

\* set(arg): forReg<0, SetAllRegs, Args...>(arg.data)
setBytes(r, sizes, data) ==
    forRegBytesFilter(r, 0, sizes, SetAllRegs(sizes), data, 0)

\* get(arg): forReg<0, GetWritableRegs, Args...>(arg.data)
getBytes(r, sizes, refs, data) ==
    [i \in 1 .. Len(sizes) |->
        IF refs[i] THEN readBytes(r, 0 + offset(sizes, i - 1), sizes[i]) ELSE data[i]]

\* reset(arg): forReg<0, SetReadonlyRegs, Args...>(arg.data)
resetBytes(r, sizes, refs, data) ==
    forRegBytesFilter(r, 0, sizes, [i \in 1 .. Len(sizes) |-> ~refs[i]], data, 0)

\* what a script that rewrites every output register leaves in one byte
Rewritten(b) == 255 - b

\* a script kind is declared: the types of Output, which of them are
\* references, and the types of Args
InitSlots ==
    /\ outSizes \in TypeLists(MaxLayoutOut)
    /\ outRefs \in [1 .. Len(outSizes) -> BOOLEAN]
    /\ inSizes \in TypeLists(MaxLayoutArgs)
    /\ pc = "declared"
    /\ loaded = <<>>
    /\ eventsData = <<>>
    /\ events = <<>>
    /\ frozen = FALSE
    /\ attached = FALSE
    /\ ptr = 0
    /\ reg = <<>>
    /\ arg = <<>>
    /\ inputs = <<>>
    /\ log = <<>>
    /\ prevReg = <<>>
    /\ startReg = <<>>
    /\ CompatIdle
    /\ OverloadIdle
    /\ ContainerIdle
    /\ TagsIdle
    /\ AllocIdle
    /\ TypesIdle

\* ScriptWorker(args...): updateBase<Output>(args...)
ConstructSlots ==
    /\ pc = "declared"
    /\ inputs' = InputMarks
    /\ reg' = updateBaseBytes(outSizes, inSizes, InputMarks)
    /\ pc' = "constructed"
    /\ UNCHANGED <<loaded, eventsData, events, frozen, attached, ptr, arg, log,
                   prevReg, startReg, compatVars, overloadVars, containerVars,
                   tagVars, layoutVars, allocVars, typeVars>>

\* execute: set(arg)
SlotSet ==
    /\ pc = "constructed"
    /\ \E base \in MarkBases :
          /\ arg' = OutputMarks(base)
          /\ reg' = setBytes(reg, outSizes, OutputMarks(base))
    /\ pc' = "set"
    /\ UNCHANGED <<loaded, eventsData, events, frozen, attached, ptr, inputs, log,
                   prevReg, startReg, compatVars, overloadVars, containerVars,
                   tagVars, layoutVars, allocVars, typeVars>>

\* execute of an events container: executeBase(ptr->data()) of an event
\* script that rewrites every output register
SlotRun ==
    /\ pc = "set"
    /\ reg' = [b \in DOMAIN reg |->
                  IF b < offsetOutput(outSizes) THEN Rewritten(reg[b]) ELSE reg[b]]
    /\ pc' = "ran"
    /\ UNCHANGED <<loaded, eventsData, events, frozen, attached, ptr, arg, inputs,
                   log, prevReg, startReg, compatVars, overloadVars, containerVars,
                   tagVars, layoutVars, allocVars, typeVars>>

\* execute of an events container: reset(arg) before the next script
SlotReset ==
    /\ pc = "ran"
    /\ reg' = resetBytes(reg, outSizes, outRefs, arg)
    /\ pc' = "reset"
    /\ UNCHANGED <<loaded, eventsData, events, frozen, attached, ptr, arg, inputs,
                   log, prevReg, startReg, compatVars, overloadVars, containerVars,
                   tagVars, layoutVars, allocVars, typeVars>>

\* execute: get(arg), after a last script that writes no register
SlotGet ==
    /\ pc = "reset"
    /\ arg' = getBytes(reg, outSizes, outRefs, arg)
    /\ pc' = "got"
    /\ UNCHANGED <<loaded, eventsData, events, frozen, attached, ptr, reg, inputs,
                   log, prevReg, startReg, compatVars, overloadVars, containerVars,
                   tagVars, layoutVars, allocVars, typeVars>>

NextSlots ==
    \/ ConstructSlots
    \/ SlotSet
    \/ SlotRun
    \/ SlotReset
    \/ SlotGet

SpecSlots == InitSlots /\ [][NextSlots]_vars

RECURSIVE C22_SizeOfFirst(_, _)
\* the sum of the sizes of the first n declared registers of a list
C22_SizeOfFirst(sizes, n) ==
    IF n = 0 THEN 0 ELSE C22_SizeOfFirst(sizes, n - 1) + sizes[n]

\* where the claim puts output i and input j
C22_OutputAt(i) == C22_SizeOfFirst(outSizes, i - 1)
C22_InputAt(j) == C22_SizeOfFirst(outSizes, Len(outSizes)) + C22_SizeOfFirst(inSizes, j - 1)

\* the bytes the register file holds at the place of output i, of input j
C22_OutputBytes(i) == [k \in 1 .. outSizes[i] |-> reg[C22_OutputAt(i) + k - 1]]
C22_InputBytes(j) == [k \in 1 .. inSizes[j] |-> reg[C22_InputAt(j) + k - 1]]

\* the value of the caller's slot i after the script has rewritten its register
C22_Rewritten(slot) == [k \in DOMAIN slot |-> Rewritten(slot[k])]

\* C22: the declared registers lie contiguously in declaration order, the
\* outputs from offset 0 and the inputs behind the outputs, no two of them
\* overlap, and updateBase, set, reset and get use these same offsets
\* (BaseOffset + offset<Args...>(I) is the place the claim names, and the
\* places of two registers are disjoint):
\* every input keeps at its place the value the constructor gave it
\* through set, run, reset and get; after set every output holds at its
\* place the caller's value; reset puts the caller's value back at the
\* place of every output that is not a reference and leaves the others as
\* the script wrote them; get reads every reference output from its place.
C22_ContiguousSameOffsets ==
    pc \in {"constructed", "set", "ran", "reset", "got"} =>
      /\ \A j \in 1 .. Len(inSizes) : C22_InputBytes(j) = inputs[j]
      /\ pc = "set" => \A i \in 1 .. Len(outSizes) : C22_OutputBytes(i) = arg[i]
      /\ pc = "ran" =>
            \A i \in 1 .. Len(outSizes) : C22_OutputBytes(i) = C22_Rewritten(arg[i])
      /\ pc = "reset" =>
            \A i \in 1 .. Len(outSizes) :
                C22_OutputBytes(i) = IF outRefs[i] THEN C22_Rewritten(arg[i]) ELSE arg[i]
      /\ pc = "got" =>
            \A i \in 1 .. Len(outSizes) :
                /\ C22_OutputBytes(i) = arg[i]
                /\ \E base \in MarkBases :
                      arg[i] = IF outRefs[i]
                               THEN C22_Rewritten(OutputMarks(base)[i])
                               ELSE OutputMarks(base)[i]
      /\ \A i \in 1 .. Len(outSizes) : 0 + offset(outSizes, i - 1) = C22_OutputAt(i)
      /\ \A j \in 1 .. Len(inSizes) :
            offsetOutput(outSizes) + offset(inSizes, j - 1) = C22_InputAt(j)
      /\ \A i1, i2 \in 1 .. Len(outSizes) :
            i1 < i2 => offset(outSizes, i1 - 1) + outSizes[i1] <= offset(outSizes, i2 - 1)
      /\ \A j1, j2 \in 1 .. Len(inSizes) :
            j1 < j2 => offset(inSizes, j1 - 1) + inSizes[j1] <= offset(inSizes, j2 - 1)
      /\ \A i \in 1 .. Len(outSizes) :
            offset(outSizes, i - 1) + outSizes[i] <= offsetOutput(outSizes)

\* C22 witness: a one-byte reference output before a by-value int output,
\* and a pointer input behind them: after get the caller has the value the
\* script wrote in slot 1, its own value in slot 2, and the int lies at
\* offset 1, the input at offset 5.
C22_Witness ==
    /\ pc = "got"
    /\ outSizes = <<1, IntSize>>
    /\ outRefs = <<TRUE, FALSE>>
    /\ Len(inSizes) = 2
    /\ inSizes[1] = PtrSize
    /\ arg[1] = <<Rewritten(17)>>
    /\ arg[2] = [k \in 1 .. IntSize |-> 18]
    /\ reg[1] = 18
    /\ reg[4] = 18
    /\ reg[5] = 101
    /\ reg[12] = 101
    /\ reg[13] = 102

-----------------------------------------------------------------------------
(* ScriptParserBase::registeTypeImpl<T>(): the id of a host type, kept in a  *)
(* static of the instantiation and taken from the static counter of          *)
(* registeTypeImplNextValue on the first call.                               *)

\* number of distinct host types of a program
MaxRegTypes == 17

\* the types with a fixed id: int, std::nullptr_t, ProgPos
FixedTypes == {<<"int", 0>>, <<"nullptr_t", 0>>, <<"ProgPos", 0>>}
\* host type number k, numbered in the order of the first calls
HostType(k) == <<"host", k>>

\* registeTypeImpl<T>() on the statics `ids` (one per host type that has
\* called, in the order of the first calls) and `curr`
registeTypeImpl(T, ids, curr) ==
    IF T[1] = "int" THEN [id |-> ArgInt, ids |-> ids, curr |-> curr]
    ELSE IF T[1] = "nullptr_t" THEN [id |-> ArgNull, ids |-> ids, curr |-> curr]
    ELSE IF T[1] = "ProgPos" THEN [id |-> ArgLabel, ids |-> ids, curr |-> curr]
    ELSE IF T[2] \in DOMAIN ids THEN [id |-> ids[T[2]], ids |-> ids, curr |-> curr]
    ELSE [id |-> curr, ids |-> Append(ids, curr), curr |-> ArgNext(curr)]

\* the program starts: no static is initialized
InitTypes ==
    /\ typeCurr = ArgMax
    /\ typeIds = <<>>
    /\ lastType = NoType
    /\ lastId = ArgInvalid
    /\ CompatIdle
    /\ OverloadIdle
    /\ EventsIdle
    /\ ContainerIdle
    /\ TagsIdle
    /\ LayoutIdle
    /\ AllocIdle

\* a call of registeTypeImpl<T>() for a host type: one that has called
\* before, or the next new one
RegisteHostType ==
    /\ \E k \in 1 .. Len(typeIds) + 1 :
          /\ k <= MaxRegTypes
          /\ LET res == registeTypeImpl(HostType(k), typeIds, typeCurr)
             IN /\ lastId' = res.id
                /\ typeIds' = res.ids
                /\ typeCurr' = res.curr
          /\ lastType' = HostType(k)
    /\ UNCHANGED <<compatVars, overloadVars, eventVars, containerVars, tagVars,
                   layoutVars, allocVars>>

\* a call of registeTypeImpl<T>() for int, std::nullptr_t or ProgPos
RegisteFixedType ==
    /\ \E T \in FixedTypes :
          /\ LET res == registeTypeImpl(T, typeIds, typeCurr)
             IN /\ lastId' = res.id
                /\ typeIds' = res.ids
                /\ typeCurr' = res.curr
          /\ lastType' = T
    /\ UNCHANGED <<compatVars, overloadVars, eventVars, containerVars, tagVars,
                   layoutVars, allocVars>>

NextTypes ==
    \/ RegisteHostType
    \/ RegisteFixedType

SpecTypes == InitTypes /\ [][NextTypes]_vars

\* C23: registeTypeImpl gives each distinct host type a base-type id that
\* differs from the id of every other registered type and from ArgInvalid,
\* ArgNull, ArgInt and ArgLabel, and returns the same id on every later
\* call for that type, for any number of registered types; the ids are
\* 8-bit values with the low four flag bits clear.
C23_DistinctStableIds ==
    /\ \A a, b \in DOMAIN typeIds : a # b => typeIds[a] # typeIds[b]
    /\ \A a \in DOMAIN typeIds :
          /\ typeIds[a] \notin {ArgInvalid, ArgNull, ArgInt, ArgLabel}
          /\ typeIds[a] \in 0 .. 255
          /\ BitAnd(typeIds[a], ArgSpecSize - 1) = 0
    /\ lastType[1] = "host" => lastId = typeIds[lastType[2]]

=============================================================================
